---- MODULE Spec2Model ----
(***************************************************************************)
(* Model of network/tunnel/default.go: the tunnel (type tun) that          *)
(* multiplexes sockets over one link.  The state is the tun struct, the    *)
(* socket objects it created, the goroutines started by Connect (process   *)
(* and listen, one pair per Connect that found connected false), and the   *)
(* callers that are inside Close, Dial or Listen.                          *)
(*                                                                         *)
(* Sections that run under t.Lock() are atomic with respect to each other; *)
(* Close is split into steps because listen() reads socket state and       *)
(* deletes from t.sockets without the lock.  A panic ends the program.     *)
(***************************************************************************)
EXTENDS Naturals, Sequences, FiniteSets, TLC

\* ---- bounds of the model ------------------------------------------------
MaxConnects == 2   \* Connect calls that find connected = false
MaxSockets  == 2   \* sockets created by Dial and Listen together
MaxRecv     == 1   \* messages the link hands to Recv
MaxSent     == 2   \* envelopes written by sockets
SendCap     == 2   \* capacity of t.send (make(chan *message, 128)), scaled
RecvCap     == 2   \* capacity of s.recv (make(chan *message, 128)), scaled

\* ---- the environment ----------------------------------------------------
Addrs       == {"", "a"}         \* arguments of Dial and Listen
PeerAddrs   == {"p"}             \* values of the "Remote" header
ForeignAddr == "x"               \* an address nobody dials or listens on
LinkLocal   == "link.local"      \* t.link.Local()
LinkRemote  == "link.remote"     \* t.link.Remote()

Cycles == 1..MaxConnects

\* fmt.Sprintf("%x", sha256(id)): injective on the ids of the model, and
\* never equal to its argument
Hash(id) == "sha256:" \o id

\* uuid.New().String(): the n-th identifier generated by this program
Uuid(n) == <<"uuid-1", "uuid-2", "uuid-3", "uuid-4", "uuid-5", "uuid-6",
             "uuid-7", "uuid-8">>[n]

VARIABLES
  connected,   \* t.connected
  closed,      \* t.closed: the identity of the current close channel
  chClosed,    \* the close channels that have been closed
  send,        \* t.send: the buffered channel of envelopes
  sockets,     \* t.sockets: key -> socket (an index into socks)
  socks,       \* the socket objects, in order of creation
  lock,        \* holder of the tunnel's RWMutex across steps
  closeTodo,   \* keys still to be visited by the range loop of Close
  closeSnap,   \* the sockets that were in t.sockets when Close took the lock
  calls,       \* per socket: the Dial or Listen call that created it
  procPc,      \* per Connect cycle: position of process()
  procCh,      \* per Connect cycle: the channel its select waits on
  procMsg,     \* per Connect cycle: the envelope being sent
  lisPc,       \* per Connect cycle: position of listen()
  lisMsg,      \* per Connect cycle: the message Recv returned
  lisSock,     \* per Connect cycle: the socket getSocket returned
  wire,        \* what link.Send was called with, in order
  nconn,       \* Connect cycles started
  nuuid,       \* uuids generated
  nrecv,       \* messages handed out by link.Recv
  nsent,       \* envelopes written by sockets
  panicked     \* "none", or the runtime panic that ended the program

vars == <<connected, closed, chClosed, send, sockets, socks, lock, closeTodo,
          closeSnap, calls, procPc, procCh, procMsg, lisPc, lisMsg, lisSock, wire,
          nconn, nuuid, nrecv, nsent, panicked>>

tunVars  == <<connected, closed, chClosed, lock, closeTodo, closeSnap>>
procVars == <<procPc, procCh, procMsg>>
lisVars  == <<lisPc, lisMsg, lisSock>>
cntVars  == <<nconn, nuuid, nrecv, nsent>>

NoMsg == [id |-> "", session |-> "", remote |-> "", body |-> 0]

Running == panicked = "none"

\* ---- newTunnel ----------------------------------------------------------
Init ==
  /\ connected = FALSE
  /\ closed = 0
  /\ chClosed = {}
  /\ send = <<>>
  /\ sockets = <<>>
  /\ socks = <<>>
  /\ lock = "free"
  /\ closeTodo = {}
  /\ closeSnap = {}
  /\ calls = <<>>
  /\ procPc = [c \in Cycles |-> "none"]
  /\ procCh = [c \in Cycles |-> 0]
  /\ procMsg = [c \in Cycles |-> NoMsg]
  /\ lisPc = [c \in Cycles |-> "none"]
  /\ lisMsg = [c \in Cycles |-> NoMsg]
  /\ lisSock = [c \in Cycles |-> 0]
  /\ wire = <<>>
  /\ nconn = 0
  /\ nuuid = 0
  /\ nrecv = 0
  /\ nsent = 0
  /\ panicked = "none"

\* Connect without the "already connected" return at lines 215-218
Connect_NoConnectedCheck ==
  /\ Running
  /\ lock = "free"
  /\ nconn < MaxConnects
  /\ connected' = TRUE
  /\ closed' = nconn + 1
  /\ nconn' = nconn + 1
  /\ procPc' = [procPc EXCEPT ![nconn + 1] = "enter"]
  /\ lisPc' = [lisPc EXCEPT ![nconn + 1] = "recv"]
  /\ UNCHANGED <<chClosed, lock, closeTodo, closeSnap, procCh, procMsg,
                 lisMsg, lisSock, send, sockets, socks, calls, wire, nuuid,
                 nrecv, nsent, panicked>>

\* ---- Connect (lines 211-231): one critical section ----------------------
Connect ==
  /\ Running
  /\ lock = "free"
  /\ IF connected
       THEN UNCHANGED <<tunVars, procVars, lisVars, nconn>>
       ELSE /\ nconn < MaxConnects
            /\ connected' = TRUE
            /\ closed' = nconn + 1              \* make(chan bool)
            /\ nconn' = nconn + 1
            /\ procPc' = [procPc EXCEPT ![nconn + 1] = "enter"]  \* go t.process()
            /\ lisPc' = [lisPc EXCEPT ![nconn + 1] = "recv"]     \* go t.listen()
            /\ UNCHANGED <<chClosed, lock, closeTodo, closeSnap, procCh,
                           procMsg, lisMsg, lisSock>>
  /\ UNCHANGED <<send, sockets, socks, calls, wire, nuuid, nrecv, nsent,
                 panicked>>

\* ---- Close (lines 186-208) ----------------------------------------------
\* close(ch) of a channel that is already closed panics
CloseChan(ch) ==
  IF ch \in chClosed
    THEN /\ panicked' = "close of closed channel"
         /\ UNCHANGED chClosed
    ELSE /\ chClosed' = chClosed \cup {ch}
         /\ UNCHANGED panicked

\* Close without the "not connected" return at lines 190-192
CloseIsNoop_NoConnectedCheck == closed \in chClosed

\* the guards at lines 190 and 195: nothing to do
CloseIsNoop == (~connected) \/ (closed \in chClosed)

\* t.Lock(); the two early returns (with the deferred Unlock), or the start
\* of the range over t.sockets
CloseEnter ==
  /\ Running
  /\ lock = "free"
  /\ IF CloseIsNoop
       THEN UNCHANGED <<lock, closeTodo, closeSnap>>
       ELSE /\ lock' = "Close"
            /\ closeTodo' = DOMAIN sockets
            /\ closeSnap' = {sockets[k] : k \in DOMAIN sockets}
  /\ UNCHANGED <<connected, closed, chClosed, send, sockets, socks, calls,
                 procVars, lisVars, wire, cntVars, panicked>>

\* socket.Close(): sets the socket's closed signal, once
SocketClose(s) == [s EXCEPT !.closed = TRUE]

\* one iteration of "for _, s := range t.sockets { s.Close() }"; a key
\* deleted from the map before the iteration reaches it is not produced
CloseSocket(k) ==
  /\ Running
  /\ lock = "Close"
  /\ k \in closeTodo \cap DOMAIN sockets
  /\ closeTodo' = closeTodo \ {k}
  /\ socks' = [socks EXCEPT ![sockets[k]] = SocketClose(socks[sockets[k]])]
  /\ UNCHANGED <<connected, closed, chClosed, lock, closeSnap, send, sockets,
                 calls, procVars, lisVars, wire, cntVars, panicked>>

\* Close also emptying the socket table before it returns
CloseFinish_PurgeTable ==
  /\ Running
  /\ lock = "Close"
  /\ closeTodo \cap DOMAIN sockets = {}
  /\ CloseChan(closed)
  /\ connected' = (closed \in chClosed /\ connected)
  /\ lock' = "free"
  /\ closeTodo' = {}
  /\ closeSnap' = {}
  /\ sockets' = <<>>
  /\ UNCHANGED <<closed, send, socks, calls, procVars, lisVars, wire, cntVars>>

\* close(t.closed); t.connected = false; return nil (deferred Unlock)
CloseFinish ==
  /\ Running
  /\ lock = "Close"
  /\ closeTodo \cap DOMAIN sockets = {}
  /\ CloseChan(closed)
  /\ connected' = (closed \in chClosed /\ connected)
  /\ lock' = "free"
  /\ closeTodo' = {}
  /\ closeSnap' = {}
  /\ UNCHANGED <<closed, send, sockets, socks, calls, procVars, lisVars,
                 wire, cntVars>>

\* ---- process (lines 89-115): the send loop ------------------------------
\* the goroutine starts: entering the select evaluates t.closed, without
\* the lock
processEnter(c) ==
  /\ Running
  /\ procPc[c] = "enter"
  /\ procCh' = [procCh EXCEPT ![c] = closed]
  /\ procPc' = [procPc EXCEPT ![c] = "select"]
  /\ UNCHANGED <<tunVars, send, sockets, socks, calls, procMsg, lisVars,
                 wire, cntVars, panicked>>

\* the wire message built at lines 95-104
Stamp(msg) == [id |-> msg.id, session |-> msg.session, body |-> msg.body]

\* case msg := <-t.send
processTake(c) ==
  /\ Running
  /\ procPc[c] = "select"
  /\ send # <<>>
  /\ procMsg' = [procMsg EXCEPT ![c] = Head(send)]
  /\ send' = Tail(send)
  /\ procPc' = [procPc EXCEPT ![c] = "send"]
  /\ UNCHANGED <<tunVars, sockets, socks, calls, procCh, lisVars, wire,
                 cntVars, panicked>>

\* the send loop putting the envelope back on the queue when link.Send
\* returns an error
processSend_RetryOnError(c, ok) ==
  /\ Running
  /\ procPc[c] = "send"
  /\ IF ok THEN wire' = Append(wire, Stamp(procMsg[c])) /\ UNCHANGED send
           ELSE send' = Append(send, procMsg[c]) /\ UNCHANGED wire
  /\ procMsg' = [procMsg EXCEPT ![c] = NoMsg]
  /\ procCh' = [procCh EXCEPT ![c] = closed]
  /\ procPc' = [procPc EXCEPT ![c] = "select"]
  /\ UNCHANGED <<tunVars, sockets, socks, calls, lisVars, cntVars, panicked>>

\* t.link.Send(nmsg) returns, with an error or without: the loop goes
\* round and enters the select again, evaluating t.closed again
processSend(c, ok) ==
  /\ Running
  /\ procPc[c] = "send"
  /\ wire' = Append(wire, Stamp(procMsg[c]))
  /\ procMsg' = [procMsg EXCEPT ![c] = NoMsg]
  /\ procCh' = [procCh EXCEPT ![c] = closed]
  /\ procPc' = [procPc EXCEPT ![c] = "select"]
  /\ UNCHANGED <<tunVars, send, sockets, socks, calls, lisVars, cntVars,
                 panicked>>

\* case <-t.closed: return
processExit(c) ==
  /\ Running
  /\ procPc[c] = "select"
  /\ procCh[c] \in chClosed
  /\ procPc' = [procPc EXCEPT ![c] = "done"]
  /\ UNCHANGED <<tunVars, send, sockets, socks, calls, procCh, procMsg,
                 lisVars, wire, cntVars, panicked>>

\* ---- newSocket (lines 54-81) --------------------------------------------
\* the id that is hashed: the argument, or a fresh uuid when it is empty
SocketName(addr) == IF addr = "" THEN Uuid(nuuid + 1) ELSE addr

UuidsUsed(addr) == IF addr = "" THEN 2 ELSE 1

\* the composite literal at lines 66-72; remote, local and wait are not
\* set there and keep their zero values (a nil channel for wait)
NewSocketObj(addr) ==
  [id      |-> Hash(SocketName(addr)),
   session |-> Uuid(nuuid + UuidsUsed(addr)),
   closed  |-> FALSE,
   wait    |-> "nil",
   remote  |-> "",
   local   |-> "",
   recv    |-> <<>>]

\* newSocket keeping an entry already in the table: first dial wins
newSocket_KeepFirst(op, addr) ==
  /\ Running
  /\ lock = "free"
  /\ Len(socks) < MaxSockets
  /\ socks' = Append(socks, NewSocketObj(addr))
  /\ sockets' = sockets @@ (NewSocketObj(addr).id :> (Len(socks) + 1))
  /\ calls' = Append(calls, [op |-> op, addr |-> addr, pc |-> "registered",
                             ret |-> "none", accept |-> FALSE])
  /\ nuuid' = nuuid + UuidsUsed(addr)
  /\ UNCHANGED <<tunVars, send, procVars, lisVars, wire, nconn, nrecv, nsent, panicked>>

\* newSocket called by op with argument addr: the object is created and
\* stored in t.sockets under t.Lock()
newSocket(op, addr) ==
  /\ Running
  /\ lock = "free"
  /\ Len(socks) < MaxSockets
  /\ socks' = Append(socks, NewSocketObj(addr))
  /\ sockets' = (NewSocketObj(addr).id :> (Len(socks) + 1)) @@ sockets
  /\ calls' = Append(calls, [op |-> op, addr |-> addr, pc |-> "registered",
                             ret |-> "none", accept |-> FALSE])
  /\ nuuid' = nuuid + UuidsUsed(addr)
  /\ UNCHANGED <<tunVars, send, procVars, lisVars, wire, nconn, nrecv, nsent, panicked>>

\* ---- Dial (lines 234-242) -----------------------------------------------
DialNewSocket(addr) == newSocket("Dial", addr)

\* Dial setting the addresses the way Listen does
DialReturn_ListenAddrs(i) ==
  /\ Running
  /\ calls[i].op = "Dial"
  /\ calls[i].pc = "registered"
  /\ socks' = [socks EXCEPT ![i].remote = LinkRemote, ![i].local = calls[i].addr]
  /\ calls' = [calls EXCEPT ![i].pc = "returned", ![i].ret = "conn"]
  /\ UNCHANGED <<tunVars, send, sockets, procVars, lisVars, wire, cntVars,
                 panicked>>

\* c.remote = addr; c.local = t.link.Local(); return c, nil
DialReturn(i) ==
  /\ Running
  /\ calls[i].op = "Dial"
  /\ calls[i].pc = "registered"
  /\ socks' = [socks EXCEPT ![i].remote = calls[i].addr, ![i].local = LinkLocal]
  /\ calls' = [calls EXCEPT ![i].pc = "returned", ![i].ret = "conn"]
  /\ UNCHANGED <<tunVars, send, sockets, procVars, lisVars, wire, cntVars,
                 panicked>>

\* ---- Listen (lines 245-276) ---------------------------------------------
ListenNewSocket(addr) == newSocket("Listen", addr)

\* c.remote = t.link.Remote(); c.local = addr; then the caller waits
ListenWait(i) ==
  /\ Running
  /\ calls[i].op = "Listen"
  /\ calls[i].pc = "registered"
  /\ socks' = [socks EXCEPT ![i].remote = LinkRemote, ![i].local = calls[i].addr]
  /\ calls' = [calls EXCEPT ![i].pc = "waiting"]
  /\ UNCHANGED <<tunVars, send, sockets, procVars, lisVars, wire, cntVars, panicked>>

\* the cases of the select at lines 253-258 that can proceed; a receive
\* from a nil channel never can
ListenReady(s) ==
  (IF s.closed THEN {"closed"} ELSE {}) \cup
  (IF s.wait = "closed" THEN {"wait"} ELSE {})

\* Listen without the return in the closed case: it falls through to the
\* construction of the listener
ListenReturn_FallThrough(i) ==
  /\ Running
  /\ calls[i].op = "Listen"
  /\ calls[i].pc = "waiting"
  /\ ListenReady(socks[i]) # {}
  /\ calls' = [calls EXCEPT ![i].pc = "returned", ![i].ret = "listener",
                            ![i].accept = TRUE]
  /\ UNCHANGED <<tunVars, send, sockets, socks, procVars, lisVars, wire,
                 cntVars, panicked>>

\* the select returns: the error, or the listener with its accept loop
ListenReturn(i) ==
  /\ Running
  /\ calls[i].op = "Listen"
  /\ calls[i].pc = "waiting"
  /\ \E case \in ListenReady(socks[i]) :
       IF case = "closed"
         THEN calls' = [calls EXCEPT ![i].pc = "returned",
                                     ![i].ret = "error creating socket"]
         ELSE calls' = [calls EXCEPT ![i].pc = "returned",
                                     ![i].ret = "listener",
                                     ![i].accept = TRUE]   \* go tl.process()
  /\ UNCHANGED <<tunVars, send, sockets, socks, procVars, lisVars, wire,
                 cntVars, panicked>>

\* ---- socket.Send: an envelope enters the shared outbound queue ----------
SocketSend(i) ==
  /\ Running
  /\ i \in DOMAIN socks
  /\ calls[i].ret = "conn"
  /\ ~socks[i].closed
  /\ nsent < MaxSent
  /\ Len(send) < SendCap
  /\ send' = Append(send, [id |-> socks[i].id, session |-> socks[i].session,
                           remote |-> "", body |-> nsent + 1])
  /\ nsent' = nsent + 1
  /\ UNCHANGED <<tunVars, sockets, socks, calls, procVars, lisVars, wire,
                 nconn, nuuid, nrecv, panicked>>

\* ---- listen (lines 118-183): the receive loop ---------------------------
\* routing keys the peer may put in "Micro-Tunnel-Id"
InKeys == {Hash("a"), Hash(ForeignAddr)} \cup {socks[i].id : i \in DOMAIN socks}

\* the message t.link.Recv(msg) fills in
InMsg(key, remote) == [id |-> key, session |-> "peer-session",
                       remote |-> remote, body |-> nrecv + 1]

\* listen returning, instead of continuing, on a message for no socket
listenRecv_ReturnOnUnknown(c, key, remote) ==
  /\ Running
  /\ lisPc[c] = "recv"
  /\ nrecv < MaxRecv
  /\ lock = "free"
  /\ nrecv' = nrecv + 1
  /\ IF key \in DOMAIN sockets
       THEN /\ lisMsg' = [lisMsg EXCEPT ![c] = InMsg(key, remote)]
            /\ lisSock' = [lisSock EXCEPT ![c] = sockets[key]]
            /\ lisPc' = [lisPc EXCEPT ![c] = "check"]
       ELSE /\ lisPc' = [lisPc EXCEPT ![c] = "done"]
            /\ UNCHANGED <<lisMsg, lisSock>>
  /\ UNCHANGED <<tunVars, send, sockets, socks, calls, procVars, wire, nconn,
                 nuuid, nsent, panicked>>

\* t.link.Recv(msg) returns a message; getSocket (lines 45-51, under RLock)
\* looks its key up, and a message for no socket is dropped (lines 135-139)
listenRecv(c, key, remote) ==
  /\ Running
  /\ lisPc[c] = "recv"
  /\ nrecv < MaxRecv
  /\ lock = "free"
  /\ nrecv' = nrecv + 1
  /\ IF key \in DOMAIN sockets
       THEN /\ lisMsg' = [lisMsg EXCEPT ![c] = InMsg(key, remote)]
            /\ lisSock' = [lisSock EXCEPT ![c] = sockets[key]]
            /\ lisPc' = [lisPc EXCEPT ![c] = "check"]
       ELSE UNCHANGED lisVars
  /\ UNCHANGED <<tunVars, send, sockets, socks, calls, procVars, wire, nconn,
                 nuuid, nsent, panicked>>

\* t.link.Recv(msg) returns an error: return
listenRecvErr(c) ==
  /\ Running
  /\ lisPc[c] = "recv"
  /\ lisPc' = [lisPc EXCEPT ![c] = "done"]
  /\ UNCHANGED <<tunVars, send, sockets, socks, calls, procVars, lisMsg,
                 lisSock, wire, cntVars, panicked>>

\* delete(t.sockets, id)
MapDelete(m, k) == [x \in DOMAIN m \ {k} |-> m[x]]

\* the outcomes of the unsynchronised delete(t.sockets, id): it happens,
\* or, while Close ranges over the map, the runtime may end the program
DeleteOutcomes ==
  IF lock = "Close" THEN {"deleted", "concurrent map iteration and map write"}
  ELSE {"deleted"}

\* the select at lines 142-149: a closed socket is deleted from the map
\* (by key, without the lock) and the message is dropped
listenCheckClosed(c) ==
  /\ Running
  /\ lisPc[c] = "check"
  /\ IF socks[lisSock[c]].closed
       THEN \E outcome \in DeleteOutcomes :
              IF outcome = "deleted"
                THEN /\ sockets' = MapDelete(sockets, lisMsg[c].id)
                     /\ lisPc' = [lisPc EXCEPT ![c] = "recv"]
                     /\ lisMsg' = [lisMsg EXCEPT ![c] = NoMsg]
                     /\ lisSock' = [lisSock EXCEPT ![c] = 0]
                     /\ UNCHANGED panicked
                ELSE /\ panicked' = outcome
                     /\ UNCHANGED <<sockets, lisVars>>
       ELSE /\ lisPc' = [lisPc EXCEPT ![c] = "deliver"]
            /\ UNCHANGED <<sockets, lisMsg, lisSock, panicked>>
  /\ UNCHANGED <<tunVars, send, socks, calls, procVars, wire, cntVars>>

\* the select at lines 152-161: the socket after it, and whether close()
\* was given a nil channel
Handshake(s, msg) ==
  IF s.wait = "closed" THEN s
  ELSE [s EXCEPT !.remote = msg.remote,
                 !.wait = IF s.wait = "nil" THEN "nil" ELSE "closed"]

HandshakePanics(s) == s.wait = "nil"

\* the envelope built at lines 163-174
Envelope(msg) == [id |-> msg.id, session |-> msg.session,
                  remote |-> msg.remote, body |-> msg.body]

\* the non-blocking send at lines 178-181
Offer(q, m) == IF Len(q) < RecvCap THEN Append(q, m) ELSE q

\* lines 151-181 for the socket found open: handshake, then the offer to
\* the socket's recv queue
listenDeliver(c) ==
  /\ Running
  /\ lisPc[c] = "deliver"
  /\ LET s == socks[lisSock[c]]
         h == Handshake(s, lisMsg[c])
     IN IF HandshakePanics(s)
          THEN /\ socks' = [socks EXCEPT ![lisSock[c]] = h]
               /\ panicked' = "close of nil channel"
               /\ UNCHANGED lisVars
          ELSE /\ socks' = [socks EXCEPT ![lisSock[c]] =
                              [h EXCEPT !.recv = Offer(h.recv, Envelope(lisMsg[c]))]]
               /\ lisPc' = [lisPc EXCEPT ![c] = "recv"]
               /\ lisMsg' = [lisMsg EXCEPT ![c] = NoMsg]
               /\ lisSock' = [lisSock EXCEPT ![c] = 0]
               /\ UNCHANGED panicked
  /\ UNCHANGED <<tunVars, send, sockets, calls, procVars, wire, cntVars>>

\* ---- the program --------------------------------------------------------
Next ==
  \/ Connect
  \/ CloseEnter
  \/ \E k \in closeTodo : CloseSocket(k)
  \/ CloseFinish
  \/ \E c \in Cycles : processEnter(c)
  \/ \E c \in Cycles : processTake(c)
  \/ \E c \in Cycles, ok \in BOOLEAN : processSend(c, ok)
  \/ \E c \in Cycles : processExit(c)
  \/ \E addr \in Addrs : DialNewSocket(addr)
  \/ \E i \in DOMAIN calls : DialReturn(i)
  \/ \E addr \in Addrs : ListenNewSocket(addr)
  \/ \E i \in DOMAIN calls : ListenWait(i)
  \/ \E i \in DOMAIN calls : ListenReturn(i)
  \/ \E i \in DOMAIN socks : SocketSend(i)
  \/ \E c \in Cycles, key \in InKeys, remote \in PeerAddrs : listenRecv(c, key, remote)
  \/ \E c \in Cycles : listenRecvErr(c)
  \/ \E c \in Cycles : listenCheckClosed(c)
  \/ \E c \in Cycles : listenDeliver(c)

Spec == Init /\ [][Next]_vars

\* the steps the goroutines of cycle c take by themselves; the Go scheduler
\* runs a goroutine that can proceed.  What link.Recv returns, and when, is
\* the link's choice and is not included.
processStep(c) ==
  processEnter(c) \/ processTake(c) \/ processExit(c)
    \/ \E ok \in BOOLEAN : processSend(c, ok)

listenStep(c) == listenCheckClosed(c) \/ listenDeliver(c)

FairSpec ==
  /\ Spec
  /\ \A c \in Cycles : WF_vars(processStep(c)) /\ WF_vars(processExit(c))
  /\ \A c \in Cycles : WF_vars(listenStep(c))
  /\ WF_vars(CloseFinish \/ \E k \in closeTodo : CloseSocket(k))

\* ---- properties ---------------------------------------------------------
procAlive(c) == procPc[c] \in {"enter", "select", "send"}
lisAlive(c)  == lisPc[c] \in {"recv", "check", "deliver"}

\* C1: in every reachable state at most one send loop and at most one
\* receive loop is alive; a loop of an earlier Connect cycle never runs
\* alongside the loop of a later one.
C1_AtMostOneLoopEach ==
  /\ Cardinality({c \in Cycles : procAlive(c)}) <= 1
  /\ Cardinality({c \in Cycles : lisAlive(c)}) <= 1

\* C2: a Connect made while connected changes nothing; a Connect made while
\* not connected installs a fresh, open shutdown channel, sets connected and
\* starts exactly one send loop and one receive loop; no other step replaces
\* the shutdown channel or starts a loop.
C2_ConnectIdempotent ==
  /\ [][(\/ closed' # closed
         \/ \E c \in Cycles : procPc[c] = "none" /\ procPc'[c] # "none"
         \/ \E c \in Cycles : lisPc[c] = "none" /\ lisPc'[c] # "none")
        => (Connect /\ ~connected)]_vars
  /\ [][Connect =>
          IF connected
            THEN UNCHANGED vars
            ELSE /\ connected'
                 /\ closed' # closed
                 /\ closed' \notin chClosed'
                 /\ \A c \in Cycles : procAlive(c) => procCh[c] # closed'
                 /\ \E c \in Cycles :
                      /\ procPc[c] = "none" /\ procPc'[c] = "enter"
                      /\ lisPc[c] = "none" /\ lisPc'[c] = "recv"
                      /\ \A d \in Cycles \ {c} :
                           procPc'[d] = procPc[d] /\ lisPc'[d] = lisPc[d]]_vars

\* a connected tunnel whose loops have started: a further Connect is the
\* no-op; the loops are those of the second genuine Connect
C2_Witness ==
  /\ connected
  /\ lock = "free"
  /\ nconn = 2
  /\ procPc[2] = "select"
  /\ Running

\* C3: a Close made while not connected, or with the current shutdown
\* channel already closed, changes no state, and no execution closes a
\* shutdown channel that is already closed.
C3_CloseIdempotent ==
  /\ [](panicked # "close of closed channel")
  /\ [][(CloseEnter /\ ((~connected) \/ closed \in chClosed))
          => UNCHANGED vars]_vars
  /\ [][\A ch \in 0..MaxConnects :
          (ch \in chClosed' /\ ch \notin chClosed) => CloseFinish /\ ch = closed]_vars

\* a tunnel that went through Connect and Close: its shutdown channel is
\* closed, it is not connected, and a further Close is the no-op
C3_Witness ==
  /\ ~connected
  /\ nconn >= 1
  /\ closed \in chClosed
  /\ lock = "free"
  /\ Running

\* C4: a Close that performs the transition has called Close on every
\* socket that was in the table when it started, before it closes the
\* shutdown channel and sets connected to false; and every socket in the
\* table when it returns has its closed signal set.
C4_CloseClosesEverySocket ==
  /\ [](lock = "Close" => connected /\ closed \notin chClosed)
  /\ [][CloseFinish =>
          /\ \A i \in closeSnap : socks[i].closed
          /\ \A k \in DOMAIN sockets' : socks'[sockets'[k]].closed]_vars

\* C5: once the shutdown channel of a Connect cycle is closed, the send
\* loop and the receive loop of that cycle eventually terminate.
C5_LoopsTerminate ==
  \A c \in Cycles :
    (c \in chClosed /\ Running) ~>
      ((procPc[c] = "done" /\ lisPc[c] = "done") \/ ~Running)

\* C6: the receive loop completes the handshake of a Listen socket's first
\* message without failing: it records the message's address header as the
\* socket's remote and closes the first-message gate, on which Listen
\* returns the Listener.
C6_ListenHandshake ==
  [][\A c \in Cycles :
       (listenDeliver(c) /\ calls[lisSock[c]].op = "Listen"
          /\ socks[lisSock[c]].wait # "closed")
       => /\ panicked' = "none"
          /\ socks'[lisSock[c]].wait = "closed"
          /\ socks'[lisSock[c]].remote = lisMsg[c].remote]_vars

\* C7: a Listen call returns before any first message only when its
\* socket's closed signal is set, and then with the socket-creation error,
\* no Listener and no accept loop.
C7_ListenFailsOnClose ==
  \A i \in DOMAIN calls :
    (calls[i].op = "Listen" /\ calls[i].pc = "returned"
       /\ socks[i].wait # "closed")
    => /\ socks[i].closed
       /\ calls[i].ret = "error creating socket"
       /\ ~calls[i].accept

\* a Listen call that returned the error after a tunnel Close closed its
\* socket, which is still in the table
C7_Witness ==
  \E i \in DOMAIN calls :
    /\ calls[i].op = "Listen"
    /\ calls[i].ret = "error creating socket"
    /\ socks[i].id \in DOMAIN sockets
    /\ sockets[socks[i].id] = i
    /\ ~connected

\* C8 as stated, for a non-empty address: when Dial(address) returns, the
\* table maps hash(address) to the new socket, whose remote is address,
\* whose local is the link's local address and whose closed signal and
\* first-message gate are unset.
C8_DialPostcondition ==
  [][\A i \in DOMAIN calls :
       (DialReturn(i) /\ calls[i].addr # "")
       => /\ Hash(calls[i].addr) \in DOMAIN sockets'
          /\ sockets'[Hash(calls[i].addr)] = i
          /\ socks'[i].remote = calls[i].addr
          /\ socks'[i].local = LinkLocal
          /\ ~socks'[i].closed
          /\ socks'[i].wait # "closed"
          /\ calls'[i].ret = "conn"]_vars

\* C8 amended: Dial waits for nothing but the table lock; at the moment it
\* registers the new socket the table maps the socket's key (hash(address),
\* or the hash of a fresh identifier when address is empty) to it, with the
\* closed signal and the first-message gate unset; and it returns, without
\* error, having set remote to address and local to the link's local address.
C8_DialRegisters ==
  /\ [](\A addr \in Addrs :
          (Running /\ lock = "free" /\ Len(socks) < MaxSockets)
            => ENABLED DialNewSocket(addr))
  /\ [](\A i \in DOMAIN calls :
          (Running /\ calls[i].op = "Dial" /\ calls[i].pc = "registered")
            => ENABLED DialReturn(i))
  /\ [][\A addr \in Addrs :
          DialNewSocket(addr)
          => LET n == Len(socks')
             IN /\ socks'[n].id = Hash(IF addr = "" THEN Uuid(nuuid + 1) ELSE addr)
                /\ socks'[n].id \in DOMAIN sockets'
                /\ sockets'[socks'[n].id] = n
                /\ ~socks'[n].closed
                /\ socks'[n].wait # "closed"]_vars
  /\ [][\A i \in DOMAIN calls :
          DialReturn(i)
          => /\ socks'[i].remote = calls[i].addr
             /\ socks'[i].local = LinkLocal
             /\ calls'[i].ret = "conn"]_vars

\* a Dial has returned its connection while the tunnel is connected and the
\* receive loop of the current cycle is blocked in Recv
C8_Witness ==
  \E i \in DOMAIN calls :
    /\ calls[i].op = "Dial"
    /\ calls[i].ret = "conn"
    /\ socks[i].remote = calls[i].addr
    /\ connected
    /\ lisPc[nconn] = "recv"

\* C9: a message whose routing key is not in the table is dropped: the
\* table, every socket, the outbound queue and the tunnel state are
\* unchanged and the receive loop is back in Recv.
C9_UnknownKeyDropped ==
  [][\A c \in Cycles, key \in InKeys, remote \in PeerAddrs :
       (listenRecv(c, key, remote) /\ key \notin DOMAIN sockets)
       => /\ UNCHANGED <<sockets, socks, send, wire, calls, tunVars, procVars>>
          /\ lisPc'[c] = "recv"
          /\ UNCHANGED <<lisMsg, lisSock>>]_vars

\* the one message of the run has been received and dropped: every socket
\* created is open and still in the table, and the receive loop of the
\* connected tunnel is in Recv again
C9_Witness ==
  /\ nrecv = 1
  /\ Running
  /\ connected
  /\ Len(socks) = 2
  /\ \A i \in DOMAIN socks :
       /\ ~socks[i].closed
       /\ socks[i].id \in DOMAIN sockets
       /\ sockets[socks[i].id] = i
  /\ \A c \in Cycles : lisPc[c] \in {"none", "recv"}

C11_OutboundOrder ==
  \A j, k \in DOMAIN wire :
    (j < k /\ wire[j].id = wire[k].id /\ wire[j].session = wire[k].session)
      => wire[j].body < wire[k].body

\* C12: a socket's inbound queue holds messages of its own key in the order
\* in which the link delivered them (bodies are numbered in the order of
\* delivery), and of the messages delivered for the socket it misses only
\* those that arrived at a full queue.
C12_InboundOrder ==
  /\ [](\A i \in DOMAIN socks :
          \A j, k \in DOMAIN socks[i].recv :
            /\ socks[i].recv[j].id = socks[i].id
            /\ j < k => socks[i].recv[j].body < socks[i].recv[k].body)
  /\ [][\A c \in Cycles :
          listenDeliver(c)
          => LET q  == socks[lisSock[c]].recv
                 q2 == socks'[lisSock[c]].recv
             IN \/ q2 = Append(q, Envelope(lisMsg[c]))
                \/ q2 = q /\ Len(q) >= RecvCap]_vars

C14_NoDeliveryAfterClose ==
  /\ [][\A i \in DOMAIN socks :
          socks[i].closed => socks'[i].recv = socks[i].recv]_vars
  /\ [][\A c \in Cycles :
          (listenStep(c) /\ socks[lisSock[c]].closed)
          => /\ lisMsg[c].id \notin DOMAIN sockets'
             /\ lisPc'[c] = "recv"
             /\ \A i \in DOMAIN socks : socks'[i].recv = socks[i].recv
             /\ panicked' = "none"]_vars

\* C15: the first inbound message for a socket closes its first-message
\* gate and writes remote from the message's address header; the gate is
\* closed at most once and never reopens, and a message arriving with the
\* gate closed leaves the gate and remote unchanged.
C15_GateClosedOnce ==
  /\ [](\A i \in DOMAIN socks :
          socks[i].remote \in PeerAddrs => socks[i].wait = "closed")
  /\ [][\A i \in DOMAIN socks :
          socks[i].wait = "closed"
          => socks'[i].wait = "closed" /\ socks'[i].remote = socks[i].remote]_vars
  /\ [](panicked # "close of nil channel")

\* C16: the socket table is written only by a step that holds the tunnel's
\* lock: no step changes the table while Close holds the lock and ranges
\* over it, and no execution ends in the runtime's report of a concurrent
\* map access.
C16_TableUnderLock ==
  /\ [][sockets' # sockets => lock # "Close"]_vars
  /\ [](panicked # "concurrent map iteration and map write")

\* C17: dialing an address already in the table is last-dial-wins: the
\* table then maps the key to the new socket and the earlier socket is left
\* as it was; a message received later is routed to the latest socket of its
\* key, never to an earlier one; and an open socket that a later one of the
\* same key has replaced is never closed by a Dial or by the tunnel's Close.
C17_LastDialWins ==
  /\ [][\A addr \in Addrs :
          DialNewSocket(addr)
          => LET n == Len(socks')
             IN /\ n = Len(socks) + 1
                /\ sockets'[socks'[n].id] = n
                /\ \A i \in DOMAIN socks : socks'[i] = socks[i]
                /\ \A k \in DOMAIN sockets \ {socks'[n].id} :
                     k \in DOMAIN sockets' /\ sockets'[k] = sockets[k]]_vars
  /\ [][\A c \in Cycles, key \in InKeys, remote \in PeerAddrs :
          (listenRecv(c, key, remote) /\ key \in DOMAIN sockets)
          => /\ socks[lisSock'[c]].id = key
             /\ \A j \in DOMAIN socks : j > lisSock'[c] => socks[j].id # key]_vars
  /\ [][\A i \in DOMAIN socks :
          (~socks[i].closed /\ \E j \in DOMAIN socks : j > i /\ socks[j].id = socks[i].id)
          => ~socks'[i].closed]_vars

\* "a" was dialed twice and the tunnel was then closed: the second socket
\* is closed, the first, no longer in the table, is still open
C17_Witness ==
  /\ Len(socks) = 2
  /\ calls[1].op = "Dial" /\ calls[2].op = "Dial"
  /\ socks[1].id = socks[2].id
  /\ sockets[socks[2].id] = 2
  /\ socks[2].closed
  /\ ~socks[1].closed
  /\ closed \in chClosed
  /\ ~connected

\* every envelope written so far, each counted where it is: on the outbound
\* queue, held by a send loop, or submitted to the link
Queued(b)    == Cardinality({k \in DOMAIN send : send[k].body = b})
Held(b)      == Cardinality({c \in Cycles : procMsg[c].body = b})
Submitted(b) == Cardinality({k \in DOMAIN wire : wire[k].body = b})

\* C18: an envelope taken from the outbound queue is submitted to link.Send
\* exactly once, carrying the routing key and the session of the socket that
\* wrote it; whether Send fails or not, the envelope is not put back on the
\* queue, no socket or tunnel state changes, and the loop goes round to its
\* select.
C18_SubmitOnce ==
  /\ [](\A b \in 1..MaxSent : Submitted(b) <= 1 /\ Held(b) + Submitted(b) <= 1)
  /\ [](\A k \in DOMAIN wire :
          \E i \in DOMAIN socks :
            wire[k].id = socks[i].id /\ wire[k].session = socks[i].session)
  /\ [][\A c \in Cycles :
          processTake(c)
          => /\ procMsg'[c] = Head(send)
             /\ procPc'[c] = "send"]_vars
  /\ [](\A c \in Cycles, ok \in BOOLEAN :
          (Running /\ procPc[c] = "send")
          => procMsg[c] # NoMsg /\ ENABLED processSend(c, ok))
  /\ [][\A c \in Cycles, ok \in BOOLEAN :
          processSend(c, ok)
          => /\ wire' = Append(wire, Stamp(procMsg[c]))
             /\ Stamp(procMsg[c]).id = procMsg[c].id
             /\ Stamp(procMsg[c]).session = procMsg[c].session
             /\ procPc'[c] = "select"
             /\ procMsg'[c] = NoMsg
             /\ UNCHANGED <<send, sockets, socks, calls, tunVars, lisVars,
                            cntVars, panicked>>]_vars

\* one envelope has been submitted to the link and the loop that submitted
\* it is in its select again, the next envelope still on the queue
C18_Witness ==
  /\ Len(wire) = 1
  /\ Len(send) = 1
  /\ \E c \in Cycles : procPc[c] = "select" /\ \A d \in Cycles \ {c} : procPc[d] = "none"
  /\ Running

\* C19: when Recv returns an error the receive loop terminates, leaving
\* connected, the table, every queue and the send loops unchanged; from then
\* on no message is taken from the link until a Connect made with connected
\* false (so after a Close) has started a new receive loop.
C19_RecvErrorStopsDelivery ==
  /\ [][\A c \in Cycles :
          listenRecvErr(c)
          => /\ lisPc'[c] = "done"
             /\ UNCHANGED <<tunVars, sockets, socks, send, wire, procVars>>]_vars
  /\ [][\A c \in Cycles :
          (lisPc[c] = "none" /\ lisPc'[c] # "none") => ~connected /\ connected']_vars
  /\ [][(nconn >= 1 /\ lisPc[nconn] = "done") => nrecv' = nrecv]_vars

====
